---- MODULE Spec2Model ----
(***************************************************************************)
(* Simple Expression Parser (simple_parse.c): lexer, recursive-descent     *)
(* parser and the three renderers (fully parenthesized, postfix, prefix).  *)
(*                                                                         *)
(* A C string is a sequence of one-character strings.  The token list is   *)
(* a sequence of tokens (prev/next are the sequence order); a pointer into *)
(* it is an index, and the NULL pointer is the index one past the end, so  *)
(* the NULL list is the empty sequence.  malloc is assumed to succeed.     *)
(***************************************************************************)
EXTENDS Integers, Sequences, FiniteSets, TLC

\* ---------------------------------------------------------------- bounds
\* longest raw input enumerated over the whole alphabet Sigma
MaxLen == 4
\* largest number of tokens of a generated grammatical expression
MaxToks == 9
\* deepest nesting of parentheses in a generated grammatical expression
MaxNest == 2

\* ------------------------------------------------------- token types
LPAREN == 0
RPAREN == 1
EXP == 2
MUL == 3
DIV == 4
ADD == 5
SUB == 6
ATOM == 7

\* ---------------------------------------------------- parse-tree types
NEXPR == 0
NeXPR == 1
NEXPRP == 2
NeXPRP == 3
NEXPRPP == 4
NEXPRPPP == 5
NLPAREN == 6
NRPAREN == 7
NEXP == 8
NMUL == 9
NDIV == 10
NADD == 11
NSUB == 12
NATOM == 13
NEPSILON == 14

\* ------------------------------------------------------------ characters
\* <ctype.h> isalpha / isdigit, restricted to the characters the inputs use
Letters == {"a", "b", "c", "d", "e", "r", "v"}
Digits == {"1", "2", "3", "8"}
isalpha(c) == c \in Letters
isdigit(c) == c \in Digits

\* ----------------------------------------------------------------- lexer
create_token(type, init_char, token_len) ==
    [type |-> type, string |-> SubSeq(init_char, 1, token_len)]

\* the suffix of a C string starting at (1-based) position i
Tail_from(u, i) == SubSeq(u, i, Len(u))

\* the inner  while (isalpha(*user_input)) ++user_input;  loops: first
\* position at or after i whose character is not in the class
\* mutant: the inner loop over further letters is missing
scan_alpha_mut(u, i) == i

RECURSIVE scan_alpha(_, _)
scan_alpha(u, i) ==
    IF i <= Len(u) /\ isalpha(u[i]) THEN scan_alpha(u, i + 1) ELSE i

RECURSIVE scan_digit(_, _)
scan_digit(u, i) ==
    IF i <= Len(u) /\ isdigit(u[i]) THEN scan_digit(u, i + 1) ELSE i

\* the switch of input_lexer: token type of a one-character token, -1 for
\* the default branch
op_type(c) ==
    CASE c = "(" -> LPAREN
      [] c = ")" -> RPAREN
      [] c = "^" -> EXP
      [] c = "*" -> MUL
      [] c = "/" -> DIV
      [] c = "+" -> ADD
      [] c = "-" -> SUB
      [] OTHER -> -1

\* the main loop of input_lexer; result is the list built so far.  The
\* final rewind through prev returns the head, i.e. the whole sequence.
\* mutant: the default branch returns the list built so far, not NULL
RECURSIVE lexer_loop_mut(_, _, _)
lexer_loop_mut(u, i, result) ==
    IF i > Len(u) THEN result
    ELSE IF isalpha(u[i]) THEN
        LET j == scan_alpha(u, i + 1)
        IN lexer_loop_mut(u, j, Append(result, create_token(ATOM, Tail_from(u, i), j - i)))
    ELSE IF isdigit(u[i]) THEN
        LET j == scan_digit(u, i + 1)
        IN lexer_loop_mut(u, j, Append(result, create_token(ATOM, Tail_from(u, i), j - i)))
    ELSE IF op_type(u[i]) = -1 THEN result
    ELSE lexer_loop_mut(u, i + 1, Append(result, create_token(op_type(u[i]), Tail_from(u, i), 1)))

RECURSIVE lexer_loop(_, _, _)
lexer_loop(u, i, result) ==
    IF i > Len(u) THEN result
    ELSE IF isalpha(u[i]) THEN
        LET j == scan_alpha(u, i + 1)
        IN lexer_loop(u, j, Append(result, create_token(ATOM, Tail_from(u, i), j - i)))
    ELSE IF isdigit(u[i]) THEN
        LET j == scan_digit(u, i + 1)
        IN lexer_loop(u, j, Append(result, create_token(ATOM, Tail_from(u, i), j - i)))
    ELSE IF op_type(u[i]) = -1 THEN << >>
    ELSE lexer_loop(u, i + 1, Append(result, create_token(op_type(u[i]), Tail_from(u, i), 1)))

input_lexer(user_input) ==
    IF user_input = << >> THEN << >> ELSE lexer_loop(user_input, 1, << >>)

\* ---------------------------------------------------------------- parser
\* the NULL node pointer
NULL == [type |-> -1, string |-> << >>, num_childs |-> -1, child_ptrs |-> << >>]

\* create_node, together with the assignments to child_ptrs[0..n-1] that
\* every caller makes right after it
create_node(type, string, num_childs, childs) ==
    [type |-> type, string |-> string, num_childs |-> num_childs, child_ptrs |-> childs]

\* The parser state threaded through the parsing functions: ptr is
\* *lexed_in_ptr (NULL is Len(toks) + 1); log records, in program order, each
\* node allocation ("node"), each diagnostic printed ("print") and each
\* assignment *lexed_in_ptr = (*lexed_in_ptr)->next ("advance"), with the
\* cursor at that moment.
Ev(s, k) == [s EXCEPT !.log = Append(@, [k |-> k, at |-> s.ptr])]
Advance(s) == [ptr |-> s.ptr + 1, log |-> Append(s.log, [k |-> "advance", at |-> s.ptr])]
Ret(node, s) == [node |-> node, st |-> s]

\* lparen, rparen, expo, mul, quo, add, sub and atom share one body, which
\* differs in the token type matched and the node type built
terminal(ttype, ntype, toks, s) ==
    IF s.ptr > Len(toks) THEN Ret(NULL, Ev(s, "print"))
    ELSE IF toks[s.ptr].type = ttype
         THEN Ret(create_node(ntype, toks[s.ptr].string, 0, << >>), Advance(Ev(s, "node")))
         ELSE Ret(NULL, Advance(Ev(s, "print")))

lparen(toks, s) == terminal(LPAREN, NLPAREN, toks, s)
rparen(toks, s) == terminal(RPAREN, NRPAREN, toks, s)
expo(toks, s) == terminal(EXP, NEXP, toks, s)
mul(toks, s) == terminal(MUL, NMUL, toks, s)
quo(toks, s) == terminal(DIV, NDIV, toks, s)
add(toks, s) == terminal(ADD, NADD, toks, s)
sub(toks, s) == terminal(SUB, NSUB, toks, s)
atom(toks, s) == terminal(ATOM, NATOM, toks, s)

epsilon == create_node(NEPSILON, << >>, 0, << >>)

\* the lookahead loop of exprpp: the first RPAREN at or after p, or NULL
RECURSIVE lookahead_scan(_, _)
lookahead_scan(toks, p) ==
    IF p <= Len(toks) /\ toks[p].type # RPAREN THEN lookahead_scan(toks, p + 1) ELSE p

\* lookahead->next != NULL && lookahead->next->type == EXP
next_is_exp(toks, p) == p + 1 <= Len(toks) /\ toks[p + 1].type = EXP

\* *lexed_in_ptr != NULL && (*lexed_in_ptr)->type == type
at(toks, s, type) == s.ptr <= Len(toks) /\ toks[s.ptr].type = type

\* A parsing function allocates its node with create_node, fills
\* child_ptrs[0..n-1] in order and returns the node.  Node1, Node2 and Node3
\* are that node together with the parser state after the last child; c0,
\* c1 and c2 are what the calls for the children returned.  The operators
\* named f_childN below are the rest of the body of f from the assignment
\* to child_ptrs[N] on.
Node1(type, c0) ==
    [node |-> [type |-> type, string |-> << >>, num_childs |-> 1,
               child_ptrs |-> <<c0.node>>],
     st |-> c0.st]
Node2(type, c0, c1) ==
    [node |-> [type |-> type, string |-> << >>, num_childs |-> 2,
               child_ptrs |-> <<c0.node, c1.node>>],
     st |-> c1.st]
Node3(type, c0, c1, c2) ==
    [node |-> [type |-> type, string |-> << >>, num_childs |-> 3,
               child_ptrs |-> <<c0.node, c1.node, c2.node>>],
     st |-> c2.st]

\* result = create_node(type, "", 1); result->child_ptrs[0] = epsilon();
EpsilonOnly(type, s) == Ret(create_node(type, << >>, 1, <<epsilon>>), Ev(Ev(s, "node"), "node"))

RECURSIVE expr(_, _), Expr(_, _), exprp(_, _), Exprp(_, _), exprpp(_, _), exprppp(_, _)

expr_child1(toks, c0) == Node2(NEXPR, c0, Expr(toks, c0.st))
expr(toks, s) == expr_child1(toks, exprp(toks, Ev(s, "node")))

Expr_child2(toks, c0, c1) == Node3(NeXPR, c0, c1, Expr(toks, c1.st))
Expr_child1(toks, c0) == Expr_child2(toks, c0, exprp(toks, c0.st))
\* mutant: on an exhausted token list Expr returns NULL, as exprpp and
\* exprppp do, instead of a node holding epsilon
Expr_mut(toks, s) ==
    CASE s.ptr > Len(toks) -> Ret(NULL, s)
      [] at(toks, s, ADD) -> Expr_child1(toks, add(toks, Ev(s, "node")))
      [] at(toks, s, SUB) -> Expr_child1(toks, sub(toks, Ev(s, "node")))
      [] OTHER -> EpsilonOnly(NeXPR, s)

Expr(toks, s) ==
    CASE s.ptr > Len(toks) -> EpsilonOnly(NeXPR, s)
      [] at(toks, s, ADD) -> Expr_child1(toks, add(toks, Ev(s, "node")))
      [] at(toks, s, SUB) -> Expr_child1(toks, sub(toks, Ev(s, "node")))
      [] OTHER -> EpsilonOnly(NeXPR, s)

exprp_child1(toks, c0) == Node2(NEXPRP, c0, Exprp(toks, c0.st))
exprp(toks, s) == exprp_child1(toks, exprpp(toks, Ev(s, "node")))

Exprp_child2(toks, c0, c1) == Node3(NeXPRP, c0, c1, Exprp(toks, c1.st))
Exprp_child1(toks, c0) == Exprp_child2(toks, c0, exprpp(toks, c0.st))
Exprp(toks, s) ==
    CASE s.ptr > Len(toks) -> EpsilonOnly(NeXPRP, s)
      [] at(toks, s, MUL) -> Exprp_child1(toks, mul(toks, Ev(s, "node")))
      [] at(toks, s, DIV) -> Exprp_child1(toks, quo(toks, Ev(s, "node")))
      [] OTHER -> EpsilonOnly(NeXPRP, s)

\* the three-child arm of exprpp (the same text in both branches)
exprpp_child2(toks, c0, c1) == Node3(NEXPRPP, c0, c1, exprpp(toks, c1.st))
exprpp_child1(toks, c0) == exprpp_child2(toks, c0, expo(toks, c0.st))
exprpp_three(toks, s) == exprpp_child1(toks, exprppp(toks, Ev(s, "node")))

\* the one-child arm of exprpp (the same text in both branches)
exprpp_one(toks, s) == Node1(NEXPRPP, exprppp(toks, Ev(s, "node")))

\* the conditions of exprpp, in the order the code tests them, with the
\* cursor at p: which of its return statements is reached
exprpp_branch(toks, p) ==
    IF p > Len(toks) THEN "null"
    ELSE IF toks[p].type = ATOM
    THEN IF next_is_exp(toks, p) THEN "three" ELSE "one"
    ELSE IF lookahead_scan(toks, p) > Len(toks) THEN "error"
    ELSE IF next_is_exp(toks, lookahead_scan(toks, p)) THEN "three"
    ELSE "one"

\* mutant: on an exhausted token list exprpp returns an epsilon node, as
\* Expr and Exprp do, instead of NULL
exprpp_mut(toks, s) ==
    CASE exprpp_branch(toks, s.ptr) = "null" -> Ret(epsilon, Ev(s, "node"))
      [] exprpp_branch(toks, s.ptr) = "error" -> Ret(NULL, Ev(s, "print"))
      [] exprpp_branch(toks, s.ptr) = "three" -> exprpp_three(toks, s)
      [] exprpp_branch(toks, s.ptr) = "one" -> exprpp_one(toks, s)

exprpp(toks, s) ==
    CASE exprpp_branch(toks, s.ptr) = "null" -> Ret(NULL, s)
      [] exprpp_branch(toks, s.ptr) = "error" -> Ret(NULL, Ev(s, "print"))
      [] exprpp_branch(toks, s.ptr) = "three" -> exprpp_three(toks, s)
      [] exprpp_branch(toks, s.ptr) = "one" -> exprpp_one(toks, s)

exprppp_child2(toks, c0, c1) == Node3(NEXPRPPP, c0, c1, rparen(toks, c1.st))
exprppp_child1(toks, c0) == exprppp_child2(toks, c0, expr(toks, c0.st))
exprppp(toks, s) ==
    CASE s.ptr > Len(toks) -> Ret(NULL, s)
      [] at(toks, s, ATOM) -> Node1(NEXPRPPP, atom(toks, Ev(s, "node")))
      [] OTHER -> exprppp_child1(toks, lparen(toks, Ev(s, "node")))

\* ------------------------------------------------------------- renderers
concat(str1, str2) == str1 \o str2

\* head->child_ptrs[i]
child(head, i) == head.child_ptrs[i + 1]

\* what a renderer yields when control reaches the end of the function
\* without a return statement (the value is indeterminate)
NoReturn == <<"#UB">>

RECURSIVE pre_compl_par(_)

\* first loop of a chain branch of pre_compl_par: one "(" per further
\* continuation
RECURSIVE cp_open(_)
cp_open(dummy) ==
    IF dummy.num_childs = 3 THEN concat(<<"(">>, cp_open(child(dummy, 2))) ELSE << >>

\* second loop of a chain branch of pre_compl_par
RECURSIVE cp_rest(_)
cp_rest(dummy) ==
    IF dummy.num_childs # 1
    THEN concat(concat(concat(child(dummy, 0).string, pre_compl_par(child(dummy, 1))), <<")">>),
                cp_rest(child(dummy, 2)))
    ELSE << >>

\* body of the NEXPR and of the NEXPRP chain branch (they are the same text)
cp_chain(head) ==
    concat(concat(concat(concat(concat(concat(<<"(">>,
        cp_open(child(child(head, 1), 2))),
        pre_compl_par(child(head, 0))),
        child(child(head, 1), 0).string),
        pre_compl_par(child(child(head, 1), 1))),
        <<")">>),
        cp_rest(child(child(head, 1), 2)))

\* the if / else-if chain of pre_compl_par, in the order the code tests its
\* conditions: which branch is taken for head
pre_compl_par_branch(head) ==
    IF head = NULL THEN "null"
    ELSE IF head.type = NEXPR /\ child(head, 1).num_childs = 3 THEN "chain"
    ELSE IF head.type = NEXPRP /\ child(head, 1).num_childs = 3 THEN "chain"
    ELSE IF head.type = NEXPRPP /\ head.num_childs = 3 THEN "pow"
    ELSE IF head.type \in {NADD, NSUB, NMUL, NDIV, NATOM} THEN "string"
    ELSE IF head.type = NEXPRPPP /\ head.num_childs = 1 THEN "child0"
    ELSE IF head.type \in {NEXPR, NEXPRP, NEXPRPP} THEN "child0"
    ELSE IF head.type = NEXPRPPP THEN "child1"
    ELSE "none"

pre_compl_par(head) ==
    CASE pre_compl_par_branch(head) = "null" -> << >>
      [] pre_compl_par_branch(head) = "chain" -> cp_chain(head)
      [] pre_compl_par_branch(head) = "pow" ->
            concat(concat(concat(concat(<<"(">>, pre_compl_par(child(head, 0))), <<"^">>),
                          pre_compl_par(child(head, 2))), <<")">>)
      [] pre_compl_par_branch(head) = "string" -> head.string
      [] pre_compl_par_branch(head) = "child0" -> pre_compl_par(child(head, 0))
      [] pre_compl_par_branch(head) = "child1" -> pre_compl_par(child(head, 1))
      [] pre_compl_par_branch(head) = "none" -> NoReturn

\* mutant: the first and the last character of every non-empty string are
\* removed, whatever they are
strip_parens_mut(str) ==
    IF str # << >>
    THEN SubSeq(str, 2, Len(str) - 1)
    ELSE str

\* strip_parens: when the string starts with "(", its last character is
\* overwritten by the terminator and the copy starts at the second character
strip_parens(str) ==
    IF str # << >> /\ str[1] = "("
    THEN SubSeq(str, 2, Len(str) - 1)
    ELSE str

compl_par(head) == strip_parens(pre_compl_par(head))

\* The memory the renderers write.  concat copies both arguments into a
\* fresh buffer, so the only write to an existing buffer is  *temp = '\0'
\* in strip_parens, which overwrites the last character of its argument
\* when the argument starts with "(".
\* mutant: strip_parens overwrites the last character of every non-empty
\* argument
strip_parens_writes_mut(str) == str # << >>

strip_parens_writes(str) == str # << >> /\ str[1] = "("

\* The buffer pre_compl_par returns: "literal" for the "" of the NULL
\* branch, "malloc" for a result built by concat, "tree" for head->string
\* of a node returned as it is, "none" when no return statement is reached.
RECURSIVE pre_compl_par_buf(_)
pre_compl_par_buf(head) ==
    CASE pre_compl_par_branch(head) = "null" -> "literal"
      [] pre_compl_par_branch(head) = "chain" -> "malloc"
      [] pre_compl_par_branch(head) = "pow" -> "malloc"
      [] pre_compl_par_branch(head) = "string" -> "tree"
      [] pre_compl_par_branch(head) = "child0" -> pre_compl_par_buf(child(head, 0))
      [] pre_compl_par_branch(head) = "child1" -> pre_compl_par_buf(child(head, 1))
      [] pre_compl_par_branch(head) = "none" -> "none"

\* the tree with the last character removed from the string of the node
\* whose string pre_compl_par returns
RECURSIVE truncate_returned(_)
truncate_returned(head) ==
    CASE pre_compl_par_branch(head) = "string" ->
            [head EXCEPT !.string = SubSeq(@, 1, Len(@) - 1)]
      [] pre_compl_par_branch(head) = "child0" ->
            [head EXCEPT !.child_ptrs[1] = truncate_returned(child(head, 0))]
      [] pre_compl_par_branch(head) = "child1" ->
            [head EXCEPT !.child_ptrs[2] = truncate_returned(child(head, 1))]
      [] OTHER -> head

\* A terminal node's string is the matched token's string itself
\* (create_node stores the pointer), so a write through one is seen
\* through the other.  terminals counts the terminal nodes of a tree,
\* returned_rank is the place, among them in the order they were built, of
\* the node whose string pre_compl_par returns, and matched lists the
\* cursor positions of the successful terminal matches in that order.
RECURSIVE terminals(_)
terminals(head) ==
    CASE head = NULL -> 0
      [] head # NULL /\ head.type \in NLPAREN..NATOM -> 1
      [] head # NULL /\ head.type = NEPSILON -> 0
      [] OTHER -> IF head.num_childs = 1 THEN terminals(child(head, 0))
                  ELSE IF head.num_childs = 2
                  THEN terminals(child(head, 0)) + terminals(child(head, 1))
                  ELSE terminals(child(head, 0)) + terminals(child(head, 1))
                       + terminals(child(head, 2))

RECURSIVE returned_rank(_)
returned_rank(head) ==
    CASE pre_compl_par_branch(head) = "string" -> 1
      [] pre_compl_par_branch(head) = "child0" -> returned_rank(child(head, 0))
      [] pre_compl_par_branch(head) = "child1" ->
            terminals(child(head, 0)) + returned_rank(child(head, 1))
      [] OTHER -> 0

RECURSIVE matched(_, _)
matched(events, i) ==
    IF i > Len(events) THEN << >>
    ELSE IF i > 1 /\ events[i].k = "advance" /\ events[i - 1].k = "node"
    THEN <<events[i].at>> \o matched(events, i + 1)
    ELSE matched(events, i + 1)

\* compl_par writes into a string of the tree when pre_compl_par returned
\* that string and strip_parens overwrites its last character
compl_par_writes_tree(head) ==
    pre_compl_par_buf(head) = "tree" /\ strip_parens_writes(pre_compl_par(head))

\* the tree and the token list as compl_par(head) leaves them
compl_par_tree(head) ==
    IF compl_par_writes_tree(head) THEN truncate_returned(head) ELSE head

compl_par_tokens(toks, head, events) ==
    IF compl_par_writes_tree(head)
    THEN [toks EXCEPT ![matched(events, 1)[returned_rank(head)]].string =
                          SubSeq(@, 1, Len(@) - 1)]
    ELSE toks

RECURSIVE postfix(_)

\* mutant: the loop emits a continuation's operator before its operand
RECURSIVE post_rest_mut(_)
post_rest_mut(dummy) ==
    IF dummy.num_childs # 1
    THEN concat(concat(concat(child(dummy, 0).string, <<" ">>), postfix(child(dummy, 1))),
                post_rest_mut(child(dummy, 2)))
    ELSE << >>

\* the while loop of a chain branch of postfix
RECURSIVE post_rest(_)
post_rest(dummy) ==
    IF dummy.num_childs # 1
    THEN concat(concat(postfix(child(dummy, 1)), concat(child(dummy, 0).string, <<" ">>)),
                post_rest(child(dummy, 2)))
    ELSE << >>

post_chain(head) ==
    concat(concat(concat(postfix(child(head, 0)),
        postfix(child(child(head, 1), 1))),
        concat(child(child(head, 1), 0).string, <<" ">>)),
        post_rest(child(child(head, 1), 2)))

\* the if / else-if chain of postfix, in the order the code tests its
\* conditions: which branch is taken for head
postfix_branch(head) ==
    IF head = NULL THEN "null"
    ELSE IF head.type = NEXPR /\ child(head, 1).num_childs = 3 THEN "chain"
    ELSE IF head.type = NEXPRP /\ child(head, 1).num_childs = 3 THEN "chain"
    ELSE IF head.type = NEXPRPP /\ head.num_childs = 3 THEN "pow"
    ELSE IF head.type = NATOM THEN "string"
    ELSE IF head.type = NEXPRPPP /\ head.num_childs = 1 THEN "child0"
    ELSE IF head.type \in {NEXPR, NEXPRP, NEXPRPP} THEN "child0"
    ELSE IF head.type = NEXPRPPP THEN "child1"
    ELSE "none"

postfix(head) ==
    CASE postfix_branch(head) = "null" -> << >>
      [] postfix_branch(head) = "chain" -> post_chain(head)
      [] postfix_branch(head) = "pow" ->
            concat(concat(postfix(child(head, 0)), postfix(child(head, 2))), <<"^", " ">>)
      [] postfix_branch(head) = "string" -> concat(head.string, <<" ">>)
      [] postfix_branch(head) = "child0" -> postfix(child(head, 0))
      [] postfix_branch(head) = "child1" -> postfix(child(head, 1))
      [] postfix_branch(head) = "none" -> NoReturn

RECURSIVE prefix(_)

\* mutant: the loop appends a continuation's operator after the result so
\* far instead of prepending it
RECURSIVE pre_rest_mut(_, _)
pre_rest_mut(result, dummy) ==
    IF dummy.num_childs # 1
    THEN pre_rest_mut(concat(concat(result, concat(child(dummy, 0).string, <<" ">>)),
                             prefix(child(dummy, 1))),
                      child(dummy, 2))
    ELSE result

\* the while loop of a chain branch of prefix: each continuation prepends
\* its operator to, and appends its operand after, the result so far
RECURSIVE pre_rest(_, _)
pre_rest(result, dummy) ==
    IF dummy.num_childs # 1
    THEN pre_rest(concat(concat(concat(child(dummy, 0).string, <<" ">>), result),
                         prefix(child(dummy, 1))),
                  child(dummy, 2))
    ELSE result

pre_chain(head) ==
    pre_rest(concat(concat(concat(child(child(head, 1), 0).string, <<" ">>),
                           prefix(child(head, 0))),
                    prefix(child(child(head, 1), 1))),
             child(child(head, 1), 2))

\* the if / else-if chain of prefix, in the order the code tests its
\* conditions: which branch is taken for head
prefix_branch(head) ==
    IF head = NULL THEN "null"
    ELSE IF head.type = NEXPR /\ child(head, 1).num_childs = 3 THEN "chain"
    ELSE IF head.type = NEXPRP /\ child(head, 1).num_childs = 3 THEN "chain"
    ELSE IF head.type = NEXPRPP /\ head.num_childs = 3 THEN "pow"
    ELSE IF head.type = NATOM THEN "string"
    ELSE IF head.type = NEXPRPPP /\ head.num_childs = 1 THEN "child0"
    ELSE IF head.type \in {NEXPR, NEXPRP, NEXPRPP} THEN "child0"
    ELSE IF head.type = NEXPRPPP THEN "child1"
    ELSE "none"

prefix(head) ==
    CASE prefix_branch(head) = "null" -> << >>
      [] prefix_branch(head) = "chain" -> pre_chain(head)
      [] prefix_branch(head) = "pow" ->
            concat(concat(<<"^", " ">>, prefix(child(head, 0))), prefix(child(head, 2)))
      [] prefix_branch(head) = "string" -> concat(head.string, <<" ">>)
      [] prefix_branch(head) = "child0" -> prefix(child(head, 0))
      [] prefix_branch(head) = "child1" -> prefix(child(head, 1))
      [] prefix_branch(head) = "none" -> NoReturn

\* ---------------------------------------------------------------- inputs
\* the characters of the exhaustively enumerated raw inputs: letters,
\* a digit, every operator and parenthesis, and a character outside the
\* language
Sigma == {"a", "b", "1", "(", ")", "^", "*", "/", "+", "-", "$"}

Strings(n) == UNION {[1..k -> Sigma] : k \in 0..n}

\* The strings derived from each nonterminal of the grammar in the header
\* comment with exactly n tokens and parentheses nested at most d deep,
\* every atom written "a":
\*   expr -> exprp Expr, Expr -> + exprp Expr | - exprp Expr | epsilon,
\*   exprp -> exprpp Exprp, Exprp -> * exprpp Exprp | / exprpp Exprp | epsilon,
\*   exprpp -> exprppp ^ exprpp | exprppp,  exprppp -> atom | ( expr )
RECURSIVE GExpr(_, _), GExprp(_, _), GExprpp(_, _), GExprppp(_, _)

GExprppp(n, d) ==
    (IF n = 1 THEN {<<"a">>} ELSE {})
    \cup (IF n >= 3 /\ d >= 1 THEN {<<"(">> \o e \o <<")">> : e \in GExpr(n - 2, d - 1)} ELSE {})

GExprpp(n, d) ==
    GExprppp(n, d)
    \cup UNION {{l \o <<"^">> \o r : l \in GExprppp(i, d), r \in GExprpp(n - 1 - i, d)}
                : i \in 1..(n - 2)}

GExprp(n, d) ==
    GExprpp(n, d)
    \cup UNION {{l \o <<o>> \o r : l \in GExprp(i, d), r \in GExprpp(n - 1 - i, d), o \in {"*", "/"}}
                : i \in 1..(n - 2)}

GExpr(n, d) ==
    GExprp(n, d)
    \cup UNION {{l \o <<o>> \o r : l \in GExpr(i, d), r \in GExprp(n - 1 - i, d), o \in {"+", "-"}}
                : i \in 1..(n - 2)}

\* the k-th atom of a generated string gets the k-th name, so that every
\* atom of an expression is distinct
Names == <<"a", "b", "c", "d", "e">>

RECURSIVE Relabel(_, _)
Relabel(str, k) ==
    IF str = << >> THEN << >>
    ELSE IF Head(str) = "a"
         THEN <<Names[((k - 1) % Len(Names)) + 1]>> \o Relabel(Tail(str), k + 1)
         ELSE <<Head(str)>> \o Relabel(Tail(str), k)

\* every grammatical expression of at most MaxToks tokens whose parentheses
\* nest at most MaxNest deep
ValidExprs == {Relabel(e, 1) : e \in UNION {GExpr(n, MaxNest) : n \in 1..MaxToks}}

\* the inputs named in the specification's testable properties
Examples ==
    { <<"(", "a", "+", "b">>,
      <<"a", "+">>,
      <<"a", "$", "b">>,
      <<"a", "+", "*", "b">>,
      <<"a", ")", "b">>,
      <<"a", "(", "b", ")">>,
      <<"a", "b", "1", "2">>,
      <<"a", "-", "b", "-", "c">>,
      <<"a", "^", "b", "^", "c">>,
      <<"a", "+", "b", "*", "c">>,
      <<"(", "a", "+", "b", ")", "*", "c">>,
      <<"(", "a", "+", "3", ")", "+", "v", "a", "r", "^",
        "(", "b", "+", "2", "8", "2", "*", "c", ")">> }

Inputs == Strings(MaxLen) \cup Examples \cup ValidExprs

\* ------------------------------------------------------------------ main
VARIABLES pc, user_input, tokens, lexed_input, head, log, out_compl_par, out_postfix, out_prefix

vars == <<pc, user_input, tokens, lexed_input, head, log, out_compl_par, out_postfix, out_prefix>>

\* state of main after fgets and the newline trim: user_input holds the
\* expression; lexed_input and head are NULL
Init ==
    /\ pc = "lex"
    /\ user_input \in Inputs
    /\ tokens = << >>
    /\ lexed_input = 1
    /\ head = NULL
    /\ log = << >>
    /\ out_compl_par = << >>
    /\ out_postfix = << >>
    /\ out_prefix = << >>

\* lexed_input = input_lexer(user_input);
Lex ==
    /\ pc = "lex"
    /\ tokens' = input_lexer(user_input)
    /\ lexed_input' = 1
    /\ pc' = "parse"
    /\ UNCHANGED <<user_input, head, log, out_compl_par, out_postfix, out_prefix>>

\* head = expr(&lexed_input);
Parse ==
    /\ pc = "parse"
    /\ LET r == expr(tokens, [ptr |-> lexed_input, log |-> << >>])
       IN /\ head' = r.node
          /\ lexed_input' = r.st.ptr
          /\ log' = r.st.log
    /\ pc' = "compl_par"
    /\ UNCHANGED <<user_input, tokens, out_compl_par, out_postfix, out_prefix>>

\* printf("     %s\n", compl_par(head));
PrintComplPar ==
    /\ pc = "compl_par"
    /\ out_compl_par' = compl_par(head)
    /\ head' = compl_par_tree(head)
    /\ tokens' = compl_par_tokens(tokens, head, log)
    /\ pc' = "postfix"
    /\ UNCHANGED <<user_input, lexed_input, log, out_postfix, out_prefix>>

\* printf("     %s\n", postfix(head));
PrintPostfix ==
    /\ pc = "postfix"
    /\ out_postfix' = postfix(head)
    /\ pc' = "prefix"
    /\ UNCHANGED <<user_input, tokens, lexed_input, head, log, out_compl_par, out_prefix>>

\* printf("     %s\n\n", prefix(head)); return 0;
PrintPrefix ==
    /\ pc = "prefix"
    /\ out_prefix' = prefix(head)
    /\ pc' = "done"
    /\ UNCHANGED <<user_input, tokens, lexed_input, head, log, out_compl_par, out_postfix>>

Next == Lex \/ Parse \/ PrintComplPar \/ PrintPostfix \/ PrintPrefix

Spec == Init /\ [][Next]_vars


\* ================================================================ claims
\* ------------------------------------------------- shared vocabulary
Operators == {"^", "*", "/", "+", "-"}
Allowed == Letters \cup Digits \cup Operators \cup {"(", ")"}
HasInvalid(u) == \E i \in 1..Len(u) : u[i] \notin Allowed
Parsed == pc \notin {"lex", "parse"}

\* some parsing function returned NULL into the tree
RECURSIVE HasNull(_)
HasNull(n) == n = NULL \/ \E i \in 1..Len(n.child_ptrs) : HasNull(n.child_ptrs[i])

\* the parser signalled a failure in any of the ways the code has: a NULL
\* in the tree or a diagnostic printed while parsing
ParseFailed == HasNull(head) \/ \E i \in 1..Len(log) : log[i].k = "print"

\* Recognizer of the grammar in the header comment: the position right after
\* the longest phrase derived from the nonterminal that starts at p, 0 when
\* no phrase starts there.  (The grammar is LL(1), so the longest is the
\* only candidate.)
RECURSIVE EndExpr(_, _), EndExprTail(_, _), EndExprp(_, _), EndExprpTail(_, _)
RECURSIVE EndExprpp(_, _), EndExprppp(_, _)

EndExprppp(toks, p) ==
    IF p > Len(toks) THEN 0
    ELSE IF toks[p].type = ATOM THEN p + 1
    ELSE IF toks[p].type = LPAREN
         THEN LET q == EndExpr(toks, p + 1)
              IN IF q # 0 /\ q <= Len(toks) /\ toks[q].type = RPAREN THEN q + 1 ELSE 0
    ELSE 0

EndExprpp(toks, p) ==
    LET q == EndExprppp(toks, p)
    IN IF q # 0 /\ q <= Len(toks) /\ toks[q].type = EXP THEN EndExprpp(toks, q + 1) ELSE q

EndExprpTail(toks, q) ==
    IF q # 0 /\ q <= Len(toks) /\ toks[q].type \in {MUL, DIV}
    THEN EndExprpTail(toks, EndExprpp(toks, q + 1))
    ELSE q

EndExprp(toks, p) == EndExprpTail(toks, EndExprpp(toks, p))

EndExprTail(toks, q) ==
    IF q # 0 /\ q <= Len(toks) /\ toks[q].type \in {ADD, SUB}
    THEN EndExprTail(toks, EndExprp(toks, q + 1))
    ELSE q

EndExpr(toks, p) == EndExprTail(toks, EndExprp(toks, p))

\* the token list is one complete expression of the grammar
Grammatical(toks) == EndExpr(toks, 1) = Len(toks) + 1

NothingRendered == out_compl_par = << >> /\ out_postfix = << >> /\ out_prefix = << >>

\* maximal runs of letters and digits of a string, in order
RECURSIVE Runs(_, _, _)
Runs(str, cur, acc) ==
    IF str = << >> THEN (IF cur = << >> THEN acc ELSE Append(acc, cur))
    ELSE IF Head(str) \in Letters \cup Digits THEN Runs(Tail(str), Append(cur, Head(str)), acc)
    ELSE Runs(Tail(str), << >>, IF cur = << >> THEN acc ELSE Append(acc, cur))

AtomsOf(str) == Runs(str, << >>, << >>)
Count(str, c) == Len(SelectSeq(str, LAMBDA x : x = c))
SameOperators(s1, s2) == \A c \in Operators : Count(s1, c) = Count(s2, c)

\* a render keeps the atoms (in order) and the operators of the input
Keeps(out) ==
    /\ out # << >>
    /\ "#UB" \notin {out[i] : i \in 1..Len(out)}
    /\ AtomsOf(out) = AtomsOf(user_input)
    /\ SameOperators(out, user_input)

\* C1: for every grammatical expression, lexing and parsing the
\* fully-parenthesized render gives a tree whose postfix and prefix renders
\* equal those of the original tree.
C1_RoundTrip ==
    (pc = "done" /\ Grammatical(tokens)) =>
        LET again == expr(input_lexer(out_compl_par), [ptr |-> 1, log |-> << >>]).node
        IN postfix(again) = out_postfix /\ prefix(again) = out_prefix

\* C2: for every grammatical expression each of the three renders is
\* non-empty and holds exactly the atoms of the input, in input order, and
\* exactly its operators.
C2_RendersKeepAtomsAndOperators ==
    (pc = "done" /\ Grammatical(tokens)) =>
        Keeps(out_compl_par) /\ Keeps(out_postfix) /\ Keeps(out_prefix)

\* index of the ")" that closes the "(" opened before position p at nesting
\* depth d, 0 when there is none
RECURSIVE MatchingParen(_, _, _)
MatchingParen(toks, p, d) ==
    IF p > Len(toks) THEN 0
    ELSE IF toks[p].type = LPAREN THEN MatchingParen(toks, p + 1, d + 1)
    ELSE IF toks[p].type = RPAREN
         THEN (IF d = 1 THEN p ELSE MatchingParen(toks, p + 1, d - 1))
    ELSE MatchingParen(toks, p + 1, d)

\* C3: when exprpp is entered at a "(" (here: the first token of a
\* grammatical expression), it builds the three-child node exactly when the
\* token right after the matching ")" is "^".
C3_PowDecisionUsesMatchingParen ==
    (Parsed /\ Grammatical(tokens) /\ tokens[1].type = LPAREN) =>
        LET m == MatchingParen(tokens, 2, 1)
            node == child(child(head, 0), 0)
        IN /\ node # NULL
           /\ node.num_childs = 3 <=> (m + 1 <= Len(tokens) /\ tokens[m + 1].type = EXP)

\* C4: a token list that is not one complete expression is reported as a
\* parse failure, in particular when tokens remain unconsumed after expr
\* returns.
C4_LeftoverTokensFail ==
    (Parsed /\ ~Grammatical(tokens) /\ lexed_input <= Len(tokens)) => ParseFailed

\* the inputs of C5: the three named in the specification, and every
\* grammatical expression followed by a binary operator
C5Case ==
    \/ user_input \in {<<"(", "a", "+", "b">>, <<"a", "+">>, <<"a", "+", "*", "b">>}
    \/ /\ Len(tokens) >= 2
       /\ tokens[Len(tokens)].type \in {EXP, MUL, DIV, ADD, SUB}
       /\ Grammatical(SubSeq(tokens, 1, Len(tokens) - 1))

\* C5: when the tokens run out while an operand or ")" is expected, or an
\* operator stands where an operand is required, the parse fails and no
\* tree is rendered.
C5_ErrorsProduceNoRender ==
    (pc = "done" /\ C5Case) => (ParseFailed /\ NothingRendered)

\* C6: once a mismatch has been detected (a diagnostic printed by a
\* terminal-matching function or by exprpp), no further token is consumed
\* and no further node is built.
C6_NoRecovery ==
    Parsed =>
        \A i, j \in 1..Len(log) :
            (i < j /\ log[i].k = "print") => log[j].k \notin {"advance", "node"}

\* C7: input_lexer returns NULL for every input holding a character outside
\* the language, wherever it stands, and a non-empty list for every
\* non-empty input of allowed characters.
C7_LexerRejectsInvalid ==
    pc # "lex" =>
        /\ HasInvalid(user_input) => tokens = << >>
        /\ (user_input # << >> /\ ~HasInvalid(user_input)) => tokens # << >>

C7_Witness ==
    /\ pc = "parse"
    /\ Len(user_input) >= 3
    /\ user_input[1] \in Letters
    /\ user_input[2] \notin Allowed
    /\ tokens = << >>

RECURSIVE Lexemes(_)
Lexemes(toks) == IF toks = << >> THEN << >> ELSE Head(toks).string \o Lexemes(Tail(toks))

AllIn(str, S) == \A i \in 1..Len(str) : str[i] \in S

\* the token type the language gives each operator and parenthesis
KindOf(c) ==
    CASE c = "(" -> LPAREN [] c = ")" -> RPAREN [] c = "^" -> EXP [] c = "*" -> MUL
      [] c = "/" -> DIV [] c = "+" -> ADD [] c = "-" -> SUB

\* C8: for every input of allowed characters the lexemes of the token list
\* concatenate to the input; an Atom is all letters or all digits and a run
\* is never split over two Atoms; every other token is one character of
\* the matching kind.
C8_MaximalMunch ==
    (pc # "lex" /\ ~HasInvalid(user_input)) =>
        /\ Lexemes(tokens) = user_input
        /\ \A i \in 1..Len(tokens) :
              IF tokens[i].type = ATOM
              THEN /\ tokens[i].string # << >>
                   /\ AllIn(tokens[i].string, Letters) \/ AllIn(tokens[i].string, Digits)
              ELSE /\ Len(tokens[i].string) = 1
                   /\ tokens[i].string[1] \in Operators \cup {"(", ")"}
                   /\ tokens[i].type = KindOf(tokens[i].string[1])
        /\ \A i \in 1..(Len(tokens) - 1) :
              (tokens[i].type = ATOM /\ tokens[i + 1].type = ATOM) =>
                  (tokens[i].string[1] \in Letters) # (tokens[i + 1].string[1] \in Letters)

C8_Witness ==
    /\ pc = "parse"
    /\ Len(tokens) = 3
    /\ tokens[1].type = ATOM /\ Len(tokens[1].string) = 2 /\ AllIn(tokens[1].string, Letters)
    /\ tokens[2].type = ATOM /\ AllIn(tokens[2].string, Digits)
    /\ tokens[3].type = RPAREN

\* C9: the empty input gives the empty token list, and on an empty token
\* list the parser signals failure (the operand slot of the tree is NULL,
\* nothing is consumed) and every render is the empty string, with no
\* renderer running off its end.
C9_EmptyInputFails ==
    /\ (pc # "lex" /\ user_input = << >>) => tokens = << >>
    /\ (Parsed /\ tokens = << >>) =>
          /\ child(child(head, 0), 0) = NULL
          /\ ParseFailed
          /\ lexed_input = 1
    /\ (pc = "done" /\ tokens = << >>) => NothingRendered

C9_Witness ==
    /\ pc = "done"
    /\ user_input = << >>
    /\ tokens = << >>
    /\ HasNull(head)
    /\ NothingRendered

\* every node of a tree
RECURSIVE Subnodes(_)
Subnodes(n) ==
    IF n = NULL THEN {}
    ELSE {n} \cup UNION {Subnodes(n.child_ptrs[i]) : i \in 1..Len(n.child_ptrs)}

\* a chain node: an NEXPR or NEXPRP node with at least one continuation
IsChain(n) == n.type \in {NEXPR, NEXPRP} /\ n.child_ptrs[2].num_childs = 3

\* the continuation nodes (operator, operand, rest) of a chain, in order
RECURSIVE Continuations(_)
Continuations(c) ==
    IF c.num_childs = 3 THEN <<c>> \o Continuations(c.child_ptrs[3]) ELSE << >>

\* postfix of the left-nested grouping (..((x0 op1 x1) op2 x2)..) opk xk
\* by the rule post(L op R) = post(L) post(R) op
RECURSIVE PostLeftNested(_, _, _)
PostLeftNested(x0, conts, k) ==
    IF k = 0 THEN postfix(x0)
    ELSE PostLeftNested(x0, conts, k - 1)
         \o postfix(conts[k].child_ptrs[2]) \o conts[k].child_ptrs[1].string \o <<" ">>

\* C10: postfix of a chain x0 op1 x1 ... opn xn of same-precedence
\* operators is the postfix of its left-nested grouping; a-b-c gives
\* "a b - c - ".
C10_PostfixLeftAssoc ==
    pc = "done" =>
        /\ \A n \in Subnodes(head) :
              IsChain(n) =>
                  LET conts == Continuations(n.child_ptrs[2])
                  IN postfix(n) = PostLeftNested(n.child_ptrs[1], conts, Len(conts))
        /\ user_input = <<"a", "-", "b", "-", "c">> =>
              out_postfix = <<"a", " ", "b", " ", "-", " ", "c", " ", "-", " ">>

C10_Witness ==
    /\ pc = "done"
    /\ \E n \in Subnodes(head) :
          /\ IsChain(n)
          /\ LET conts == Continuations(n.child_ptrs[2])
             IN /\ Len(conts) >= 2
                /\ conts[1].child_ptrs[1].string # conts[2].child_ptrs[1].string
                /\ postfix(n) = out_postfix
                /\ ~HasNull(head)

\* prefix of the left-nested grouping (..((x0 op1 x1) op2 x2)..) opk xk
\* by the rule pre(L op R) = op pre(L) pre(R)
RECURSIVE PreLeftNested(_, _, _)
PreLeftNested(x0, conts, k) ==
    IF k = 0 THEN prefix(x0)
    ELSE conts[k].child_ptrs[1].string \o <<" ">>
         \o PreLeftNested(x0, conts, k - 1) \o prefix(conts[k].child_ptrs[2])

\* opk ... op2 op1, each followed by a blank
RECURSIVE OpsReversed(_, _)
OpsReversed(conts, k) ==
    IF k = 0 THEN << >>
    ELSE conts[k].child_ptrs[1].string \o <<" ">> \o OpsReversed(conts, k - 1)

\* pre(x1) ... pre(xk)
RECURSIVE PreOperands(_, _)
PreOperands(conts, k) ==
    IF k = 0 THEN << >>
    ELSE PreOperands(conts, k - 1) \o prefix(conts[k].child_ptrs[2])

\* C11: prefix of a chain x0 op1 x1 ... opn xn of same-precedence operators
\* is opn ... op1 pre(x0) pre(x1) ... pre(xn), which is the prefix of its
\* left-nested grouping; a+b-c gives "- + a b c " and a-b-c gives
\* "- - a b c ".
C11_PrefixLeftAssoc ==
    pc = "done" =>
        /\ \A n \in Subnodes(head) :
              IsChain(n) =>
                  LET conts == Continuations(n.child_ptrs[2])
                  IN /\ prefix(n) = OpsReversed(conts, Len(conts)) \o prefix(n.child_ptrs[1])
                                        \o PreOperands(conts, Len(conts))
                     /\ prefix(n) = PreLeftNested(n.child_ptrs[1], conts, Len(conts))
        /\ user_input = <<"a", "+", "b", "-", "c">> =>
              out_prefix = <<"-", " ", "+", " ", "a", " ", "b", " ", "c", " ">>
        /\ user_input = <<"a", "-", "b", "-", "c">> =>
              out_prefix = <<"-", " ", "-", " ", "a", " ", "b", " ", "c", " ">>

C11_Witness ==
    /\ pc = "done"
    /\ user_input = <<"a", "+", "b", "-", "c">>
    /\ IsChain(head)
    /\ Len(Continuations(head.child_ptrs[2])) = 2
    /\ prefix(head) = out_prefix
    /\ ~HasNull(head)

\* the operands X0, ..., Xn of a token list of the form X0 ^ X1 ^ ... ^ Xn
\* starting at p, each Xi an atom or a parenthesized expression of the
\* grammar; << >> when the list is not of that form
RECURSIVE PowOperands(_, _)
PowOperands(toks, p) ==
    LET q == EndExprppp(toks, p)
    IN IF q = 0 THEN << >>
       ELSE IF q = Len(toks) + 1 THEN <<SubSeq(toks, p, q - 1)>>
       ELSE IF toks[q].type # EXP THEN << >>
       ELSE LET rest == PowOperands(toks, q + 1)
            IN IF rest = << >> THEN << >> ELSE <<SubSeq(toks, p, q - 1)>> \o rest

\* the tree the parser builds for a token list on its own
TreeOf(toks) == expr(toks, [ptr |-> 1, log |-> << >>]).node

\* post(X0) ... post(Xn) followed by n "^ "
RECURSIVE PowPostfix(_, _)
PowPostfix(xs, k) ==
    IF k = 1 THEN postfix(TreeOf(xs[1]))
    ELSE LET before == PowPostfix(xs, k - 1)
         IN SubSeq(before, 1, Len(before) - 2 * (k - 2))
            \o postfix(TreeOf(xs[k]))
            \o SubSeq(before, Len(before) - 2 * (k - 2) + 1, Len(before)) \o <<"^", " ">>

\* "^ " pre(X0) "^ " pre(X1) ... "^ " pre(Xn-1) pre(Xn), from operand k on
RECURSIVE PowPrefix(_, _)
PowPrefix(xs, k) ==
    IF k = Len(xs) THEN prefix(TreeOf(xs[k]))
    ELSE <<"^", " ">> \o prefix(TreeOf(xs[k])) \o PowPrefix(xs, k + 1)

\* C12: for every chain X0 ^ X1 ^ ... ^ Xn the renders are those of the
\* right-nested grouping X0^(X1^(...^Xn)): postfix is post(X0) ... post(Xn)
\* followed by n "^", prefix is "^" pre(X0) "^" pre(X1) ... pre(Xn); a^b^c
\* gives "a b c ^ ^ " and "^ a ^ b c ".
C12_PowRightAssoc ==
    pc = "done" =>
        /\ LET xs == PowOperands(tokens, 1)
           IN Len(xs) >= 2 =>
                 /\ out_postfix = PowPostfix(xs, Len(xs))
                 /\ out_prefix = PowPrefix(xs, 1)
        /\ user_input = <<"a", "^", "b", "^", "c">> =>
              /\ out_postfix = <<"a", " ", "b", " ", "c", " ", "^", " ", "^", " ">>
              /\ out_prefix = <<"^", " ", "a", " ", "^", " ", "b", " ", "c", " ">>

\* The fully-parenthesized form the grammar gives the phrase of each
\* nonterminal that starts at p: every binary operation in one pair of
\* parentheses, "^" grouping to the right, "*" "/" and "+" "-" to the left,
\* the parentheses of the input dropped.
RECURSIVE RefExpr(_, _), RefExprTail(_, _, _), RefExprp(_, _), RefExprpTail(_, _, _)
RECURSIVE RefExprpp(_, _), RefExprppp(_, _)

RefExprppp(toks, p) ==
    IF toks[p].type = ATOM THEN toks[p].string ELSE RefExpr(toks, p + 1)

RefExprpp(toks, p) ==
    LET q == EndExprppp(toks, p)
    IN IF q <= Len(toks) /\ toks[q].type = EXP
       THEN <<"(">> \o RefExprppp(toks, p) \o <<"^">> \o RefExprpp(toks, q + 1) \o <<")">>
       ELSE RefExprppp(toks, p)

RefExprpTail(toks, left, q) ==
    IF q <= Len(toks) /\ toks[q].type \in {MUL, DIV}
    THEN RefExprpTail(toks,
                      <<"(">> \o left \o toks[q].string \o RefExprpp(toks, q + 1) \o <<")">>,
                      EndExprpp(toks, q + 1))
    ELSE left

RefExprp(toks, p) == RefExprpTail(toks, RefExprpp(toks, p), EndExprpp(toks, p))

RefExprTail(toks, left, q) ==
    IF q <= Len(toks) /\ toks[q].type \in {ADD, SUB}
    THEN RefExprTail(toks,
                     <<"(">> \o left \o toks[q].string \o RefExprp(toks, q + 1) \o <<")">>,
                     EndExprp(toks, q + 1))
    ELSE left

RefExpr(toks, p) == RefExprTail(toks, RefExprp(toks, p), EndExprp(toks, p))

\* a string without the pair of parentheses that wraps it, if one does
Unwrapped(str) ==
    IF str # << >> /\ str[1] = "(" /\ str[Len(str)] = ")"
    THEN SubSeq(str, 2, Len(str) - 1)
    ELSE str

\* C13: for every grammatical expression pre_compl_par gives the
\* fully-parenthesized form of the expression (one pair per binary
\* operation, left-associative chains nested to the left, "^" tighter than
\* "*" "/" tighter than "+" "-"), and compl_par gives it without the
\* outermost pair; a+b-c gives (a+b)-c, a+b*c gives a+(b*c), (a+b)*c gives
\* (a+b)*c and (a+3)+var^(b+282*c) gives (a+3)+(var^(b+(282*c))).
C13_FullyParenthesized ==
    pc = "done" =>
        /\ Grammatical(tokens) =>
              /\ pre_compl_par(head) = RefExpr(tokens, 1)
              /\ out_compl_par = Unwrapped(RefExpr(tokens, 1))
        /\ user_input = <<"a", "+", "b", "-", "c">> =>
              out_compl_par = <<"(", "a", "+", "b", ")", "-", "c">>
        /\ user_input = <<"a", "+", "b", "*", "c">> =>
              out_compl_par = <<"a", "+", "(", "b", "*", "c", ")">>
        /\ user_input = <<"(", "a", "+", "b", ")", "*", "c">> =>
              out_compl_par = <<"(", "a", "+", "b", ")", "*", "c">>
        /\ user_input = <<"(", "a", "+", "3", ")", "+", "v", "a", "r", "^",
                          "(", "b", "+", "2", "8", "2", "*", "c", ")">> =>
              out_compl_par = <<"(", "a", "+", "3", ")", "+", "(", "v", "a", "r", "^", "(", "b",
                                "+", "(", "2", "8", "2", "*", "c", ")", ")", ")">>

\* index of the ")" that closes the "(" opened before position p of a
\* string at nesting depth d, 0 when there is none
RECURSIVE ClosingParen(_, _, _)
ClosingParen(str, p, d) ==
    IF p > Len(str) THEN 0
    ELSE IF str[p] = "(" THEN ClosingParen(str, p + 1, d + 1)
    ELSE IF str[p] = ")"
         THEN (IF d = 1 THEN p ELSE ClosingParen(str, p + 1, d - 1))
    ELSE ClosingParen(str, p + 1, d)

\* C14: whenever compl_par returns something other than pre_compl_par's
\* result, that result starts with "(", ends with ")", the two match each
\* other, and what is returned is the result without exactly these two
\* characters.
C14_StripOnlyWrappingPair ==
    pc \in {"postfix", "prefix", "done"} =>
        LET pre == pre_compl_par(head)
        IN out_compl_par # pre =>
              /\ Len(pre) >= 2
              /\ pre[1] = "("
              /\ pre[Len(pre)] = ")"
              /\ ClosingParen(pre, 2, 1) = Len(pre)
              /\ out_compl_par = SubSeq(pre, 2, Len(pre) - 1)

C14_Witness ==
    /\ pc = "postfix"
    /\ user_input = <<"(", "a", "+", "b", ")", "*", "c">>
    /\ pre_compl_par(head) = <<"(", "(", "a", "+", "b", ")", "*", "c", ")">>
    /\ out_compl_par = <<"(", "a", "+", "b", ")", "*", "c">>

\* C15: compl_par leaves every node of the tree and every token lexeme as
\* it found them (postfix and prefix write to no existing buffer at all),
\* so after all three renderers have run, calling each of them again, in
\* any order, returns the strings already returned.
C15_RenderersPure ==
    /\ Parsed =>
          /\ compl_par_tree(head) = head
          /\ compl_par_tokens(tokens, head, log) = tokens
    /\ pc \notin {"lex", "parse", "compl_par"} => compl_par(head) = out_compl_par
    /\ pc \in {"prefix", "done"} => postfix(head) = out_postfix
    /\ pc = "done" => prefix(head) = out_prefix

C15_Witness ==
    /\ pc = "done"
    /\ user_input = <<"(", "a", "+", "b", ")", "*", "c">>
    /\ pre_compl_par_buf(head) = "malloc"
    /\ strip_parens_writes(pre_compl_par(head))
    /\ out_compl_par = <<"(", "a", "+", "b", ")", "*", "c">>
    /\ compl_par(head) = out_compl_par
    /\ Lexemes(tokens) = user_input

\* the cursor recorded with consecutive parser events differs only across
\* an "advance", and then by exactly one token
CursorStepsByOne(events) ==
    \A i \in 1..(Len(events) - 1) :
        events[i + 1].at = events[i].at + (IF events[i].k = "advance" THEN 1 ELSE 0)

\* every "advance" directly follows the allocation of a terminal's node at
\* the same token, i.e. it belongs to a successful terminal match
AdvanceOnlyOnMatch(events) ==
    \A i \in 1..Len(events) :
        events[i].k = "advance" =>
            i > 1 /\ events[i - 1].k = "node" /\ events[i - 1].at = events[i].at

\* C16: expr leaves the token sequence as it is; the cursor changes only
\* where a terminal function has matched its token, each time by exactly
\* one token forward, and is elsewhere (the lookahead scan of exprpp
\* included) left where it was.
C16_CursorForwardOnly ==
    [][pc = "parse" =>
          /\ tokens' = tokens
          /\ CursorStepsByOne(log')
          /\ AdvanceOnlyOnMatch(log')
          /\ lexed_input' = lexed_input + Len(SelectSeq(log', LAMBDA e : e.k = "advance"))
      ]_vars

\* n->child_ptrs[i] is a slot of node n / is a slot holding a node
HasSlot(n, i) == n # NULL /\ i < n.num_childs
HasChild(n, i) == HasSlot(n, i) /\ child(n, i) # NULL

\* the branch a renderer takes for head: "cp" is pre_compl_par, "post" is
\* postfix, "pre" is prefix
BranchOf(kind, nd) ==
    CASE kind = "cp" -> pre_compl_par_branch(nd)
      [] kind = "post" -> postfix_branch(nd)
      [] kind = "pre" -> prefix_branch(nd)

\* Whether a renderer, called on head, reads only fields of nodes that
\* exist and leaves by a return statement.  The reads are those of the
\* code: head->child_ptrs[1]->num_childs in the conditions of the chain
\* branches; in a chain branch the operator's string, dummy->num_childs and
\* dummy->child_ptrs[0]->string of each continuation; everything else is
\* passed to a recursive call, which tests head == NULL before any read.
RECURSIVE ReadsOk(_, _), RestOk(_, _)

RestOk(kind, dummy) ==
    IF dummy.num_childs # 1
    THEN /\ HasChild(dummy, 0)
         /\ HasSlot(dummy, 1)
         /\ HasChild(dummy, 2)
         /\ ReadsOk(kind, child(dummy, 1))
         /\ RestOk(kind, child(dummy, 2))
    ELSE TRUE

ReadsOk(kind, nd) ==
    CASE BranchOf(kind, nd) = "null" -> TRUE
      [] BranchOf(kind, nd) = "chain" ->
            /\ HasChild(nd, 1)
            /\ HasChild(child(nd, 1), 0)
            /\ HasSlot(child(nd, 1), 1)
            /\ HasChild(child(nd, 1), 2)
            /\ ReadsOk(kind, child(nd, 0))
            /\ ReadsOk(kind, child(child(nd, 1), 1))
            /\ RestOk(kind, child(child(nd, 1), 2))
      [] BranchOf(kind, nd) = "pow" ->
            /\ HasSlot(nd, 0) /\ ReadsOk(kind, child(nd, 0))
            /\ HasSlot(nd, 2) /\ ReadsOk(kind, child(nd, 2))
      [] BranchOf(kind, nd) = "string" -> TRUE
      [] BranchOf(kind, nd) = "child0" ->
            /\ nd.type \in {NEXPR, NEXPRP} => HasChild(nd, 1)
            /\ HasSlot(nd, 0) /\ ReadsOk(kind, child(nd, 0))
      [] BranchOf(kind, nd) = "child1" ->
            HasSlot(nd, 1) /\ ReadsOk(kind, child(nd, 1))
      [] BranchOf(kind, nd) = "none" -> FALSE

NoUB(out) == \A i \in 1..Len(out) : out[i] # "#UB"

\* C17: for every token list expr returns, and each renderer applied to the
\* tree it returns reads no field of an absent node, ends in a return
\* statement, and so returns a string.
C17_RenderersSafeOnEveryTree ==
    /\ pc = "parse" =>
          expr(tokens, [ptr |-> lexed_input, log |-> << >>]).st.ptr
              \in lexed_input..(Len(tokens) + 1)
    /\ Parsed =>
          /\ ReadsOk("cp", head)
          /\ ReadsOk("post", head)
          /\ ReadsOk("pre", head)
          /\ NoUB(pre_compl_par(head)) /\ NoUB(postfix(head)) /\ NoUB(prefix(head))
    /\ pc = "done" => NoUB(out_compl_par) /\ NoUB(out_postfix) /\ NoUB(out_prefix)

C17_Witness ==
    /\ pc = "done"
    /\ user_input = <<"a", "+">>
    /\ HasNull(head)
    /\ IsChain(head)
    /\ child(child(head, 1), 1).child_ptrs[1] = NULL
    /\ ReadsOk("cp", head) /\ ReadsOk("post", head) /\ ReadsOk("pre", head)
    /\ out_postfix = <<"a", " ", "+", " ">>


====
